---- MODULE Spec2Model ----
(***************************************************************************)
(* Model of src/app.js: the ArcInit bridge between the main process and    *)
(* the application window.                                                 *)
(*                                                                         *)
(* The renderer is single threaded.  Every action below is one task of the *)
(* event loop: an ipc message handler or a load/error callback, together   *)
(* with all promise reactions (microtasks) it makes runnable, which run    *)
(* before the next task starts.                                            *)
(*                                                                         *)
(* A JavaScript value that may be undefined is modelled as a sequence of   *)
(* length at most one: <<>> is undefined and <<v>> is the value v.  An     *)
(* object is a record; a property the object does not have is a field that *)
(* is not in the record's DOMAIN.                                          *)
(***************************************************************************)
EXTENDS Integers, Sequences, FiniteSets, TLC

\* Number of window-state-info messages the host delivers in the boot
\* specification, in the dispatch specification and in the update
\* specification.
MaxChains == 2
MaxDispatchChains == 1
MaxUpdateChains == 1

VARIABLES
  scriptPc,         \* position of the top-level script (lines 335-337)
  subscriptions,    \* ipc.on registrations, in registration order
  outbox,           \* messages passed to ipc.send, in order
  created,          \* this.created
  initConfig,       \* this.initConfig (same object as window.ArcConfig.initConfig)
  workspaceIndex,   \* this.workspaceIndex
  windowArcConfig,  \* window.ArcConfig
  workspaceManager, \* this.workspaceManager
  body,             \* children of document.body, in document order
  chains,           \* the promise chains started by initApp, in start order
  calls,            \* operations invoked by the task that ran last
  replies,          \* messages passed to e.sender.send by the task that ran last
  thrown,           \* what the task that ran last threw, "none" if it returned
  lastEvent         \* the task that ran last

vars == <<scriptPc, subscriptions, outbox, created, initConfig, workspaceIndex,
          windowArcConfig, workspaceManager, body, chains, calls, replies,
          thrown, lastEvent>>

bridgeVars == <<scriptPc, subscriptions, outbox, created, initConfig,
                workspaceIndex, windowArcConfig, workspaceManager, body, chains>>

--------------------------------------------------------------------------
(* JavaScript objects                                                      *)

EmptyObj == [f \in {} |-> 0]

Put(r, f, v) == [g \in DOMAIN r \cup {f} |-> IF g = f THEN v ELSE r[g]]

\* Reading a string property: "undefined" when the object does not have it.
Get(r, f) == IF f \in DOMAIN r THEN r[f] ELSE "undefined"

\* args[i] of a rest-parameter array (i counted from 1).
Arg(args, i) == IF i <= Len(args) THEN <<args[i]>> ELSE <<>>

--------------------------------------------------------------------------
(* Inputs                                                                  *)

\* window-state-info payloads the host sends: no payload at all, and
\* configurations without a workspace index, with index 0 and with index 2.
Payloads ==
  { <<>>,
    << [workspacePath |-> "/tmp/w.json", themeFile |-> "dark.css",
        importFile |-> "components.html", appComponents |-> "components"] >>,
    << [workspaceIndex |-> 0, themeFile |-> "dark.css",
        importFile |-> "components.html", appComponents |-> "components"] >>,
    << [workspaceIndex |-> 2, themeFile |-> "light.css",
        importFile |-> "other.html", appComponents |-> "other"] >> }

\* Messages of the errors thrown by the collaborators that are not part of
\* app.js.  They reject and throw Error objects.
ShellErrors == {"initApplication failed"}
ThemeErrors == {"Theme not found"}

--------------------------------------------------------------------------
(* The top-level script                                                    *)

UpdateChannels ==
  <<"checking-for-update", "update-available", "update-not-available",
    "autoupdate-error", "download-progress", "update-downloaded">>

Init ==
  /\ scriptPc = "constructed"
  /\ subscriptions = <<>>
  /\ outbox = <<>>
  /\ created = FALSE
  /\ initConfig = <<>>
  /\ workspaceIndex = <<>>
  /\ windowArcConfig = <<>>
  /\ workspaceManager = <<>>
  /\ body = <<>>
  /\ chains = <<>>
  /\ calls = <<>>
  /\ replies = <<>>
  /\ thrown = "none"
  /\ lastEvent = [handler |-> "constructor"]

\* The outputs of a task that invokes nothing, replies nothing and returns.
Quiet(ev) ==
  /\ calls' = <<>>
  /\ replies' = <<>>
  /\ thrown' = "none"
  /\ lastEvent' = ev

\* listen with update-available registered a second time in the place of
\* update-not-available.
ListenDuplicate ==
  /\ scriptPc = "constructed"
  /\ scriptPc' = "listening"
  /\ subscriptions' =
       [i \in 1..6 |-> [channel |-> IF i = 3 THEN UpdateChannels[2] ELSE UpdateChannels[i],
                        handler |-> "updateEventHandler"]]
       \o << [channel |-> "command", handler |-> "commandHandler"],
             [channel |-> "request-action", handler |-> "execRequestAction"],
             [channel |-> "theme-editor-preview", handler |-> "_themePreviewHandler"],
             [channel |-> "window-state-info", handler |-> "_stateInfoHandler"] >>
  /\ Quiet([handler |-> "listen"])
  /\ UNCHANGED <<outbox, created, initConfig, workspaceIndex, windowArcConfig,
                 workspaceManager, body, chains>>

\* listen.
Listen ==
  /\ scriptPc = "constructed"
  /\ scriptPc' = "listening"
  /\ subscriptions' =
       [i \in 1..6 |-> [channel |-> UpdateChannels[i], handler |-> "updateEventHandler"]]
       \o << [channel |-> "command", handler |-> "commandHandler"],
             [channel |-> "request-action", handler |-> "execRequestAction"],
             [channel |-> "theme-editor-preview", handler |-> "_themePreviewHandler"],
             [channel |-> "window-state-info", handler |-> "_stateInfoHandler"] >>
  /\ Quiet([handler |-> "listen"])
  /\ UNCHANGED <<outbox, created, initConfig, workspaceIndex, windowArcConfig,
                 workspaceManager, body, chains>>

RequestState ==
  /\ scriptPc = "listening"
  /\ scriptPc' = "done"
  /\ outbox' = Append(outbox, [channel |-> "window-state-request", args |-> <<>>])
  /\ Quiet([handler |-> "requestState"])
  /\ UNCHANGED <<subscriptions, created, initConfig, workspaceIndex,
                 windowArcConfig, workspaceManager, body, chains>>

\* A message on a channel reaches a handler once the script has run to its
\* end and the channel has a registration.
Subscribed(channel, handler) ==
  /\ scriptPc = "done"
  /\ \E i \in 1..Len(subscriptions) :
       subscriptions[i] = [channel |-> channel, handler |-> handler]

--------------------------------------------------------------------------
(* The initialization chain                                                *)

\* reportFatalError: the message sent on the fatal-error channel.
FatalMessage(message) == [channel |-> "fatal-error", args |-> <<message>>]

\* A chain that rejected with Error(message): the catch of initApp runs
\* reportFatalError and the chain settles.
Rejected(ch, stage, message) ==
  [ch EXCEPT !.pc = "failed",
             !.trace = ch.trace \o <<stage, "reportFatalError">>,
             !.fatal = Append(ch.fatal, message)]

\* _createApp without its check of this.created.
CreateAppEntryUnguarded(cfg, isCreated) ==
  [pc |-> "import", enteredCreated |-> isCreated, config |-> cfg,
   trace |-> <<"workspaceManager", "importComponents">>,
   importHref |-> <<Get(cfg, "importFile")>>, themeFile |-> <<>>,
   fatal |-> <<>>]

\* initApp returning when this.created is set, without the theme load.
CreateAppEntryNoTheme(cfg, isCreated) ==
  IF isCreated
    THEN [pc |-> "ready", enteredCreated |-> TRUE, config |-> cfg,
          trace |-> <<"workspaceManager">>,
          importHref |-> <<>>, themeFile |-> <<>>,
          fatal |-> <<>>]
    ELSE [pc |-> "import", enteredCreated |-> FALSE, config |-> cfg,
          trace |-> <<"workspaceManager", "importComponents">>,
          importHref |-> <<Get(cfg, "importFile")>>, themeFile |-> <<>>,
          fatal |-> <<>>]

\* _createApp as called by initApp, and the reaction of initApp to a promise
\* that is already resolved.
CreateAppEntry(cfg, isCreated) ==
  IF isCreated
    THEN [pc |-> "theme", enteredCreated |-> TRUE, config |-> cfg,
          trace |-> <<"workspaceManager", "loadTheme">>,
          importHref |-> <<>>, themeFile |-> <<Get(cfg, "themeFile")>>,
          fatal |-> <<>>]
    ELSE [pc |-> "import", enteredCreated |-> FALSE, config |-> cfg,
          trace |-> <<"workspaceManager", "importComponents">>,
          importHref |-> <<Get(cfg, "importFile")>>, themeFile |-> <<>>,
          fatal |-> <<>>]

\* workspace.activeRequests of a shell: the requests of its open tabs.  The
\* payload of the second one is a FormData object.
ShellRequests ==
  << [url |-> "https://api.example.com/a", method |-> "GET"],
     [url |-> "https://api.example.com/b", method |-> "POST",
      payload |-> "FormData"] >>

\* The element the last reaction of _createApp creates and _setupApp sets up.
NewShell(c) ==
  [id |-> "app", tag |-> "arc-electron",
   componentsDir |-> Get(initConfig[1], "appComponents"),
   creator |-> c, updateState |-> <<>>, hasAppUpdate |-> FALSE,
   selected |-> <<>>, activeRequests |-> ShellRequests]

\* _stateInfoHandler with the default of the workspace index written as 1.
StateInfoHandlerOtherDefault(payload) ==
  LET info == IF payload = <<>> THEN EmptyObj ELSE payload[1]
      cfg == IF "workspaceIndex" \notin DOMAIN info \/ info.workspaceIndex = 0
               THEN Put(info, "workspaceIndex", 1)
               ELSE info
      opts == IF "workspacePath" \in DOMAIN cfg /\ cfg.workspacePath # ""
                THEN [filePath |-> cfg.workspacePath]
                ELSE EmptyObj
  IN /\ Subscribed("window-state-info", "_stateInfoHandler")
     /\ workspaceIndex' = <<cfg.workspaceIndex>>
     /\ windowArcConfig' = <<[initConfig |-> cfg]>>
     /\ initConfig' = <<cfg>>
     /\ workspaceManager' =
          <<[index |-> cfg.workspaceIndex, opts |-> opts, observed |-> TRUE]>>
     /\ chains' = Append(chains, CreateAppEntry(cfg, created))
     /\ Quiet([handler |-> "_stateInfoHandler", payload |-> payload])
     /\ UNCHANGED <<scriptPc, subscriptions, outbox, created, body>>

\* _stateInfoHandler, with initApp and the synchronous part of _createApp.
StateInfoHandler(payload) ==
  LET info == IF payload = <<>> THEN EmptyObj ELSE payload[1]
      cfg == IF "workspaceIndex" \notin DOMAIN info \/ info.workspaceIndex = 0
               THEN Put(info, "workspaceIndex", 0)
               ELSE info
      opts == IF "workspacePath" \in DOMAIN cfg /\ cfg.workspacePath # ""
                THEN [filePath |-> cfg.workspacePath]
                ELSE EmptyObj
  IN /\ Subscribed("window-state-info", "_stateInfoHandler")
     /\ workspaceIndex' = <<cfg.workspaceIndex>>
     /\ windowArcConfig' = <<[initConfig |-> cfg]>>
     /\ initConfig' = <<cfg>>
     /\ workspaceManager' =
          <<[index |-> cfg.workspaceIndex, opts |-> opts, observed |-> TRUE]>>
     /\ chains' = Append(chains, CreateAppEntry(cfg, created))
     /\ Quiet([handler |-> "_stateInfoHandler", payload |-> payload])
     /\ UNCHANGED <<scriptPc, subscriptions, outbox, created, body>>

\* The load callback of _importHref when _createApp creates the shell without
\* importing src/arc-electron.html first.
ImportLoadSkipsApp(c) ==
  /\ c \in 1..Len(chains)
  /\ chains[c].pc = "import"
  /\ body' = Append(body, NewShell(c))
  /\ created' = TRUE
  /\ chains' = [chains EXCEPT
       ![c].pc = "theme",
       ![c].trace = @ \o <<"componentsLoaded", "createElement", "componentsDir",
                           "initApplication", "appendChild", "created",
                           "loadTheme">>,
       ![c].themeFile = <<Get(initConfig[1], "themeFile")>>]
  /\ Quiet([handler |-> "importLoad", chain |-> c])
  /\ UNCHANGED <<scriptPc, subscriptions, outbox, initConfig, workspaceIndex,
                 windowArcConfig, workspaceManager>>

\* The load callback of _importHref: the next reaction of _createApp starts
\* the import of src/arc-electron.html.
ImportLoad(c) ==
  /\ c \in 1..Len(chains)
  /\ chains[c].pc = "import"
  /\ chains' = [chains EXCEPT ![c].pc = "appImport",
                              ![c].trace = @ \o <<"componentsLoaded", "importApp">>]
  /\ Quiet([handler |-> "importLoad", chain |-> c])
  /\ UNCHANGED <<scriptPc, subscriptions, outbox, created, initConfig,
                 workspaceIndex, windowArcConfig, workspaceManager, body>>

\* The error callback of _importHref when the catch of _createApp does not
\* throw again.
ImportErrorSwallowed(c) ==
  /\ c \in 1..Len(chains)
  /\ chains[c].pc = "import"
  /\ chains' = [chains EXCEPT ![c].pc = "appImport",
                              ![c].trace = @ \o <<"componentsFailed", "importApp">>]
  /\ Quiet([handler |-> "importError", chain |-> c])
  /\ UNCHANGED <<scriptPc, subscriptions, outbox, created, initConfig,
                 workspaceIndex, windowArcConfig, workspaceManager, body>>

\* The error callback of _importHref.
ImportError(c) ==
  /\ c \in 1..Len(chains)
  /\ chains[c].pc = "import"
  /\ chains' = [chains EXCEPT ![c] =
       Rejected(@, "componentsFailed", "Unable to load components import file.")]
  /\ outbox' = Append(outbox, FatalMessage("Unable to load components import file."))
  /\ Quiet([handler |-> "importError", chain |-> c])
  /\ UNCHANGED <<scriptPc, subscriptions, created, initConfig, workspaceIndex,
                 windowArcConfig, workspaceManager, body>>

\* The load callback of Polymer.importHref when the element is appended
\* before _setupApp is called.
AppImportLoadAttachFirst(c) ==
  /\ c \in 1..Len(chains)
  /\ chains[c].pc = "appImport"
  /\ body' = Append(body, NewShell(c))
  /\ \/ /\ created' = TRUE
        /\ chains' = [chains EXCEPT
             ![c].pc = "theme",
             ![c].trace = @ \o <<"appLoaded", "createElement", "componentsDir",
                                 "initApplication", "appendChild", "created",
                                 "loadTheme">>,
             ![c].themeFile = <<Get(initConfig[1], "themeFile")>>]
        /\ UNCHANGED outbox
     \/ \E m \in ShellErrors :
          /\ chains' = [chains EXCEPT ![c] =
               Rejected([@ EXCEPT !.trace = @ \o <<"appLoaded", "createElement",
                                                   "appendChild", "componentsDir",
                                                   "initApplication">>],
                        "setupFailed", m)]
          /\ outbox' = Append(outbox, FatalMessage(m))
          /\ UNCHANGED created
  /\ Quiet([handler |-> "appImportLoad", chain |-> c])
  /\ UNCHANGED <<scriptPc, subscriptions, initConfig, workspaceIndex,
                 windowArcConfig, workspaceManager>>

\* The load callback of Polymer.importHref: the last reaction of _createApp
\* and, when it returns, the loadTheme reaction of initApp.  initApplication
\* is the shell's code: it returns or throws.
AppImportLoad(c) ==
  /\ c \in 1..Len(chains)
  /\ chains[c].pc = "appImport"
  /\ \/ /\ body' = Append(body, NewShell(c))
        /\ created' = TRUE
        /\ chains' = [chains EXCEPT
             ![c].pc = "theme",
             ![c].trace = @ \o <<"appLoaded", "createElement", "componentsDir",
                                 "initApplication", "appendChild", "created",
                                 "loadTheme">>,
             ![c].themeFile = <<Get(initConfig[1], "themeFile")>>]
        /\ UNCHANGED outbox
     \/ \E m \in ShellErrors :
          /\ chains' = [chains EXCEPT ![c] =
               Rejected([@ EXCEPT !.trace = @ \o <<"appLoaded", "createElement",
                                                   "componentsDir", "initApplication">>],
                        "setupFailed", m)]
          /\ outbox' = Append(outbox, FatalMessage(m))
          /\ UNCHANGED <<body, created>>
  /\ Quiet([handler |-> "appImportLoad", chain |-> c])
  /\ UNCHANGED <<scriptPc, subscriptions, initConfig, workspaceIndex,
                 windowArcConfig, workspaceManager>>

\* The error callback of Polymer.importHref when it rejects with the error of
\* the components import.
AppImportErrorOtherMessage(c) ==
  /\ c \in 1..Len(chains)
  /\ chains[c].pc = "appImport"
  /\ chains' = [chains EXCEPT ![c] =
       Rejected(@, "appFailed", "Unable to load components import file.")]
  /\ outbox' = Append(outbox, FatalMessage("Unable to load components import file."))
  /\ Quiet([handler |-> "appImportError", chain |-> c])
  /\ UNCHANGED <<scriptPc, subscriptions, created, initConfig, workspaceIndex,
                 windowArcConfig, workspaceManager, body>>

\* The error callback of Polymer.importHref.
AppImportError(c) ==
  /\ c \in 1..Len(chains)
  /\ chains[c].pc = "appImport"
  /\ chains' = [chains EXCEPT ![c] = Rejected(@, "appFailed", "Unable to load ARC app")]
  /\ outbox' = Append(outbox, FatalMessage("Unable to load ARC app"))
  /\ Quiet([handler |-> "appImportError", chain |-> c])
  /\ UNCHANGED <<scriptPc, subscriptions, created, initConfig, workspaceIndex,
                 windowArcConfig, workspaceManager, body>>

\* The promise of themeManager.loadTheme resolves.
ThemeLoaded(c) ==
  /\ c \in 1..Len(chains)
  /\ chains[c].pc = "theme"
  /\ chains' = [chains EXCEPT ![c].pc = "ready",
                              ![c].trace = @ \o <<"themeLoaded">>]
  /\ Quiet([handler |-> "themeLoaded", chain |-> c])
  /\ UNCHANGED <<scriptPc, subscriptions, outbox, created, initConfig,
                 workspaceIndex, windowArcConfig, workspaceManager, body>>

\* The promise of themeManager.loadTheme rejects and initApp has no catch.
ThemeErrorUnreported(c) ==
  /\ c \in 1..Len(chains)
  /\ chains[c].pc = "theme"
  /\ chains' = [chains EXCEPT ![c].pc = "failed",
                              ![c].trace = @ \o <<"themeFailed">>]
  /\ Quiet([handler |-> "themeError", chain |-> c])
  /\ UNCHANGED <<scriptPc, subscriptions, outbox, created, initConfig,
                 workspaceIndex, windowArcConfig, workspaceManager, body>>

\* The promise of themeManager.loadTheme rejects.
ThemeError(c) ==
  /\ c \in 1..Len(chains)
  /\ chains[c].pc = "theme"
  /\ \E m \in ThemeErrors :
       /\ chains' = [chains EXCEPT ![c] = Rejected(@, "themeFailed", m)]
       /\ outbox' = Append(outbox, FatalMessage(m))
  /\ Quiet([handler |-> "themeError", chain |-> c])
  /\ UNCHANGED <<scriptPc, subscriptions, created, initConfig, workspaceIndex,
                 windowArcConfig, workspaceManager, body>>

\* The host delivers window-state-info, at most n times.
DeliverUpTo(n, payloads) ==
  /\ Len(chains) < n
  /\ \E payload \in payloads : StateInfoHandler(payload)

DeliverStateInfo == DeliverUpTo(MaxChains, Payloads)

Next ==
  \/ Listen
  \/ RequestState
  \/ DeliverStateInfo
  \/ \E c \in 1..Len(chains) : ImportLoad(c)
  \/ \E c \in 1..Len(chains) : ImportError(c)
  \/ \E c \in 1..Len(chains) : AppImportLoad(c)
  \/ \E c \in 1..Len(chains) : AppImportError(c)
  \/ \E c \in 1..Len(chains) : ThemeLoaded(c)
  \/ \E c \in 1..Len(chains) : ThemeError(c)

Spec == Init /\ [][Next]_vars

--------------------------------------------------------------------------
(* Commands and request actions                                            *)

\* The cases of the switch of commandHandler that call one operation of the
\* shell: the case label and the method called.
CommandTable ==
  { <<"show-settings", "openSettings">>,
    <<"about", "openAbout">>,
    <<"open-license", "openLicense">>,
    <<"import-data", "openImport">>,
    <<"export-data", "openExport">>,
    <<"open-saved", "openSaved">>,
    <<"open-history", "openHistory">>,
    <<"open-drive", "openDrivePicker">>,
    <<"open-messages", "openInfoCenter">>,
    <<"login-external-webservice", "openWebUrl">>,
    <<"open-cookie-manager", "openCookieManager">>,
    <<"open-hosts-editor", "openHostRules">>,
    <<"open-themes", "openThemesPanel">>,
    <<"open-requests-workspace", "openWorkspace">>,
    <<"open-web-socket", "openWebSocket">> }

PanelCommands == {p[1] : p \in CommandTable}

\* The cases that call a method of the bridge.
RemoteCommands == {"get-tabs-count", "activate-tab", "get-request-data"}

\* The cases that call a method of the bridge: the case label, the method and
\* the number of elements of args passed to it after the event.
RemoteTable ==
  { <<"get-tabs-count", "sendTabsCount", 1>>,
    <<"activate-tab", "activateTab", 2>>,
    <<"get-request-data", "getRequestData", 2>> }

CommandNames == PanelCommands \cup RemoteCommands

\* The cases of the switch of execRequestAction.
RequestActionNames == {"save", "save-as", "new-tab", "send-current", "update-request"}

\* Names the host sends that are no case of the switch of commandHandler,
\* and names that are no case of the switch of execRequestAction.
UnknownCommands == {"unknown-command", "save", "Show-Settings"}
UnknownRequestActions == {"unknown-action", "show-settings", "Save"}

\* Argument lists the host sends after the name.
ArgLists == { <<>>, <<42>>, <<42, 7>>, <<5, 1, 9>> }

\* window-state-info payloads of the dispatch specification.
DispatchPayloads ==
  { << [workspacePath |-> "/tmp/w.json", themeFile |-> "dark.css",
        importFile |-> "components.html", appComponents |-> "components"] >> }

\* this.app: document.getElementById('app'), the first element of the
\* document with that id, as an index of body; <<>> when there is none.
App ==
  IF \E i \in 1..Len(body) : body[i].id = "app"
    THEN <<CHOOSE i \in 1..Len(body) :
             /\ body[i].id = "app"
             /\ \A j \in 1..(i - 1) : body[j].id # "app">>
    ELSE <<>>

ShellCall(op, args) == [target |-> "app", op |-> op, args |-> args]

BridgeCall(op, args) == [target |-> "this", op |-> op, args |-> args]

\* The task returned after these invocations and replies.
Returns(invoked, sent) ==
  /\ calls' = invoked
  /\ replies' = sent
  /\ thrown' = "none"

\* The task threw after these invocations.
Throws(invoked, error) ==
  /\ calls' = invoked
  /\ replies' = <<>>
  /\ thrown' = error

Reply(channel, callId, payload) ==
  [channel |-> channel, callId |-> callId, error |-> FALSE, payload |-> payload]

\* The table read with the case of open-saved calling the method of the case
\* after it.
ShellOperationFallThrough(action) ==
  IF action = "open-saved"
    THEN "openHistory"
    ELSE CHOOSE op \in {p[2] : p \in CommandTable} : <<action, op>> \in CommandTable

\* The method of the shell the case of a panel command calls.
ShellOperation(action) ==
  CHOOSE op \in {p[2] : p \in CommandTable} : <<action, op>> \in CommandTable

\* A case of commandHandler that calls app.<operation>().
PanelCase(action) ==
  /\ IF App = <<>>
       THEN Throws(<<>>, "TypeError")
       ELSE Returns(<<ShellCall(ShellOperation(action), <<>>)>>, <<>>)
  /\ UNCHANGED body

\* sendTabsCount(e, callId).
SendTabsCount(callId) ==
  /\ IF App = <<>>
       THEN Throws(<<BridgeCall("sendTabsCount", <<callId>>)>>, "TypeError")
       ELSE Returns(<<BridgeCall("sendTabsCount", <<callId>>),
                      ShellCall("getTabsCount", <<>>)>>,
                    <<Reply("current-tabs-count", callId,
                            <<Len(body[App[1]].activeRequests)>>)>>)
  /\ UNCHANGED body

\* activateTab(e, callId, tabId).
ActivateTab(callId, tabId) ==
  IF App = <<>>
    THEN /\ Throws(<<BridgeCall("activateTab", <<callId, tabId>>)>>, "TypeError")
         /\ UNCHANGED body
    ELSE /\ Returns(<<BridgeCall("activateTab", <<callId, tabId>>),
                      ShellCall("workspace.selected=", <<tabId>>)>>,
                    <<Reply("tab-activated", callId, <<>>)>>)
         /\ body' = [body EXCEPT ![App[1]].selected = tabId]

\* workspace.activeRequests read with the tab id counted from one.
ActiveRequestFromOne(requests, tabId) ==
  IF tabId # <<>> /\ tabId[1] \in 1..Len(requests)
    THEN <<requests[tabId[1]]>>
    ELSE <<>>

\* workspace.activeRequests[tabId]: the array holds its elements at 0, 1, ...
ActiveRequest(requests, tabId) ==
  IF tabId # <<>> /\ tabId[1] + 1 \in 1..Len(requests)
    THEN <<requests[tabId[1] + 1]>>
    ELSE <<>>

\* getRequestData(e, callId, tabId).
GetRequestData(callId, tabId) ==
  /\ IF App = <<>>
       THEN Throws(<<BridgeCall("getRequestData", <<callId, tabId>>)>>, "TypeError")
       ELSE Returns(<<BridgeCall("getRequestData", <<callId, tabId>>),
                      ShellCall("workspace.activeRequests[]", <<tabId>>)>>,
                    <<Reply("request-data", callId,
                            ActiveRequest(body[App[1]].activeRequests, tabId))>>)
  /\ UNCHANGED body

\* The switch of commandHandler with a default case that throws, as the
\* switch of execRequestAction has.
CommandSwitchWithDefault(action, args) ==
  CASE action \in PanelCommands -> PanelCase(action)
    [] action = "get-tabs-count" -> SendTabsCount(Arg(args, 1))
    [] action = "activate-tab" -> ActivateTab(Arg(args, 1), Arg(args, 2))
    [] action = "get-request-data" -> GetRequestData(Arg(args, 1), Arg(args, 2))
    [] OTHER -> /\ Throws(<<>>, "Error: Unrecognized action " \o action)
                /\ UNCHANGED body

\* The switch of commandHandler.
CommandSwitch(action, args) ==
  CASE action \in PanelCommands -> PanelCase(action)
    [] action = "get-tabs-count" -> SendTabsCount(Arg(args, 1))
    [] action = "activate-tab" -> ActivateTab(Arg(args, 1), Arg(args, 2))
    [] action = "get-request-data" -> GetRequestData(Arg(args, 1), Arg(args, 2))
    [] OTHER -> /\ Returns(<<>>, <<>>)
                /\ UNCHANGED body

\* commandHandler(e, action, ...args).
CommandHandler(action, args) ==
  /\ Subscribed("command", "commandHandler")
  /\ lastEvent' = [handler |-> "commandHandler", action |-> action, args |-> args]
  /\ CommandSwitch(action, args)
  /\ UNCHANGED <<scriptPc, subscriptions, outbox, created, initConfig,
                 workspaceIndex, windowArcConfig, workspaceManager, chains>>

\* The calls of the cases of execRequestAction.
RequestCalls(action, args) ==
  CASE action = "save" -> <<ShellCall("saveOpened", << <<[source |-> "shortcut"]>> >>)>>
    [] action = "save-as" -> <<ShellCall("saveOpened", <<>>)>>
    [] action = "new-tab" -> <<ShellCall("newRequestTab", <<>>)>>
    [] action = "send-current" -> <<ShellCall("sendCurrentTab", <<>>)>>
    [] action = "update-request" ->
         <<ShellCall("updateRequestTab", <<Arg(args, 1), Arg(args, 2)>>)>>

\* The switch of execRequestAction without its default case.
RequestSwitchSilent(action, args) ==
  IF action \in RequestActionNames
    THEN IF App = <<>>
           THEN Throws(<<>>, "TypeError")
           ELSE Returns(RequestCalls(action, args), <<>>)
    ELSE Returns(<<>>, <<>>)

\* The switch of execRequestAction.
RequestSwitch(action, args) ==
  IF action \in RequestActionNames
    THEN IF App = <<>>
           THEN Throws(<<>>, "TypeError")
           ELSE Returns(RequestCalls(action, args), <<>>)
    ELSE Throws(<<>>, "Error: Unrecognized action " \o action)

\* execRequestAction(e, action, ...args).
ExecRequestAction(action, args) ==
  /\ Subscribed("request-action", "execRequestAction")
  /\ lastEvent' = [handler |-> "execRequestAction", action |-> action, args |-> args]
  /\ RequestSwitch(action, args)
  /\ UNCHANGED bridgeVars

DispatchDeliverStateInfo == DeliverUpTo(MaxDispatchChains, DispatchPayloads)

DispatchNext ==
  \/ Listen
  \/ RequestState
  \/ DispatchDeliverStateInfo
  \/ \E c \in 1..Len(chains) : ImportLoad(c)
  \/ \E c \in 1..Len(chains) : ImportError(c)
  \/ \E c \in 1..Len(chains) : AppImportLoad(c)
  \/ \E c \in 1..Len(chains) : AppImportError(c)
  \/ \E c \in 1..Len(chains) : ThemeLoaded(c)
  \/ \E c \in 1..Len(chains) : ThemeError(c)
  \/ \E action \in CommandNames \cup UnknownCommands, args \in ArgLists :
       CommandHandler(action, args)
  \/ \E action \in RequestActionNames \cup UnknownRequestActions, args \in ArgLists :
       ExecRequestAction(action, args)

DispatchSpec == Init /\ [][DispatchNext]_vars

--------------------------------------------------------------------------
(* Update messages and the theme preview                                   *)

\* The properties of the bridge that the constructor, _stateInfoHandler and
\* initApp assign.
BridgeProperties ==
  {"created", "contextActions", "driveBridge", "oauth2Proxy", "themeManager",
   "prefProxy", "cookieBridge", "fs", "workspaceIndex", "initConfig",
   "workspaceManager"}

\* Style maps the host sends on theme-editor-preview.
StyleMaps == { [primary |-> "#000000"], [primary |-> "#ffffff", accent |-> "#ff0000"] }

\* Message arrays the host sends on the update channels.
UpdateMessages ==
  { <<"checking-for-update">>,
    <<"download-progress", "42">>,
    <<"update-downloaded", "1.2.3">> }

\* _themePreviewHandler(e, stylesMap).
ThemePreviewHandler(stylesMap) ==
  /\ Subscribed("theme-editor-preview", "_themePreviewHandler")
  /\ lastEvent' = [handler |-> "_themePreviewHandler", stylesMap |-> stylesMap]
  /\ IF "themeLoader" \in BridgeProperties
       THEN Returns(<<[target |-> "themeLoader", op |-> "previewThemes",
                       args |-> <<stylesMap>>]>>, <<>>)
       ELSE Throws(<<>>, "TypeError")
  /\ UNCHANGED bridgeVars

\* updateEventHandler(sender, message), as registered for the channel.
UpdateEventHandler(channel, message) ==
  /\ Subscribed(channel, "updateEventHandler")
  /\ lastEvent' = [handler |-> "updateEventHandler", channel |-> channel,
                   message |-> message]
  /\ IF App = <<>>
       THEN /\ Throws(<<>>, "TypeError")
            /\ UNCHANGED body
       ELSE /\ Returns(<<>>, <<>>)
            /\ body' = [body EXCEPT
                 ![App[1]].updateState = <<message>>,
                 ![App[1]].hasAppUpdate =
                   IF Len(message) >= 1 /\ message[1] = "update-downloaded"
                     THEN TRUE
                     ELSE @]
  /\ UNCHANGED <<scriptPc, subscriptions, outbox, created, initConfig,
                 workspaceIndex, windowArcConfig, workspaceManager, chains>>

UpdateDeliverStateInfo == DeliverUpTo(MaxUpdateChains, DispatchPayloads)

UpdateNext ==
  \/ Listen
  \/ RequestState
  \/ UpdateDeliverStateInfo
  \/ \E c \in 1..Len(chains) : ImportLoad(c)
  \/ \E c \in 1..Len(chains) : ImportError(c)
  \/ \E c \in 1..Len(chains) : AppImportLoad(c)
  \/ \E c \in 1..Len(chains) : AppImportError(c)
  \/ \E c \in 1..Len(chains) : ThemeLoaded(c)
  \/ \E c \in 1..Len(chains) : ThemeError(c)
  \/ \E i \in 1..Len(UpdateChannels), message \in UpdateMessages :
       UpdateEventHandler(UpdateChannels[i], message)
  \/ \E stylesMap \in StyleMaps : ThemePreviewHandler(stylesMap)

UpdateSpec == Init /\ [][UpdateNext]_vars

--------------------------------------------------------------------------
(* Reading the state                                                       *)

Chains == 1..Len(chains)

\* The elements of document.body that chain c attached.
ShellsOf(c) == {i \in 1..Len(body) : body[i].creator = c}

Has(t, ev) == \E i \in 1..Len(t) : t[i] = ev

Count(t, ev) == Cardinality({i \in 1..Len(t) : t[i] = ev})

\* In trace t, event b happened only after event a.
After(t, a, b) ==
  \A j \in 1..Len(t) : t[j] = b => \E i \in 1..(j - 1) : t[i] = a

\* The fatal-error messages in the outbox.
FatalSent == SelectSeq(outbox, LAMBDA m : m.channel = "fatal-error")

\* The chains that passed the check of this.created in _createApp.
PassedGuard == {c \in Chains : ~chains[c].enteredCreated}

--------------------------------------------------------------------------
(* C1 *)

\* C1: at most one shell element is ever attached to the document, also when
\* window-state-info is delivered again while a chain is between its check
\* of this.created and its assignment of this.created.
C1_AtMostOneShell == Len(body) <= 1

--------------------------------------------------------------------------
(* C2 *)

\* C2: when window-state-info is delivered again after the first chain set
\* this.created, the new chain starts no import and attaches nothing, and
\* exactly one element, with id 'app', is attached to the document.
C2_NoSecondShellAfterCreated ==
  /\ \A c \in Chains :
       chains[c].enteredCreated =>
         /\ ShellsOf(c) = {}
         /\ chains[c].importHref = <<>>
         /\ ~Has(chains[c].trace, "appendChild")
  /\ (created /\ Cardinality(PassedGuard) = 1) =>
       (Len(body) = 1 /\ body[1].id = "app")

C2_Witness ==
  /\ Len(chains) = 2
  /\ chains[1].pc = "ready"
  /\ chains[2].enteredCreated
  /\ chains[2].pc = "ready"
  /\ Len(body) = 1

--------------------------------------------------------------------------
(* C3 *)

\* The stages of one chain in the order of initApp, _createApp and _setupApp.
StageOrder ==
  <<"workspaceManager", "importComponents", "componentsLoaded", "importApp",
    "appLoaded", "createElement", "componentsDir", "initApplication",
    "appendChild", "created", "loadTheme">>

\* C3: within one chain every stage starts only after the stage before it
\* has settled successfully, no stage runs twice, the shell is attached only
\* after both imports have loaded, and a chain that creates the shell
\* requests the theme only after it has attached the shell.
C3_StagesInOrder ==
  \A c \in Chains :
    LET t == chains[c].trace
    IN /\ t[1] = "workspaceManager"
       /\ \A k \in 1..Len(StageOrder) : Count(t, StageOrder[k]) <= 1
       /\ IF chains[c].enteredCreated
            THEN \A k \in 2..10 : ~Has(t, StageOrder[k])
            ELSE \A k \in 2..Len(StageOrder) :
                   After(t, StageOrder[k - 1], StageOrder[k])
       /\ After(t, "workspaceManager", "loadTheme")
       /\ \A i \in ShellsOf(c) :
            /\ Has(t, "componentsLoaded")
            /\ Has(t, "appLoaded")
            /\ Has(t, "appendChild")
       /\ (chains[c].themeFile # <<>>) = Has(t, "loadTheme")
       /\ (Has(t, "loadTheme") /\ ~chains[c].enteredCreated) => ShellsOf(c) # {}

C3_Witness ==
  \E c \in Chains :
    /\ ~chains[c].enteredCreated
    /\ chains[c].pc = "ready"
    /\ ShellsOf(c) # {}

--------------------------------------------------------------------------
(* C4 *)

\* C4: a chain whose components import was rejected has sent "Unable to load
\* components import file." on the fatal-error channel, has started neither
\* the import of the application nor the theme load, and has attached no
\* shell; as long as no chain has created a shell, this.created is false and
\* the document has no shell.
C4_ComponentsImportRejected ==
  /\ \A c \in Chains :
       Has(chains[c].trace, "componentsFailed") =>
         /\ chains[c].pc = "failed"
         /\ chains[c].fatal = <<"Unable to load components import file.">>
         /\ \E i \in 1..Len(outbox) :
              outbox[i] = FatalMessage("Unable to load components import file.")
         /\ ~Has(chains[c].trace, "importApp")
         /\ ~Has(chains[c].trace, "loadTheme")
         /\ ~Has(chains[c].trace, "created")
         /\ chains[c].themeFile = <<>>
         /\ ShellsOf(c) = {}
  /\ (\A c \in Chains : ~Has(chains[c].trace, "created")) =>
       (~created /\ body = <<>>)

C4_Witness ==
  /\ Len(chains) = 1
  /\ Has(chains[1].trace, "componentsFailed")
  /\ Len(FatalSent) = 1
  /\ body = <<>>
  /\ ~created

--------------------------------------------------------------------------
(* C5 *)

FailureEvents == {"componentsFailed", "appFailed", "setupFailed", "themeFailed"}

\* The rejections of the chain with trace t.
Failures(t) == {i \in 1..Len(t) : t[i] \in FailureEvents}

\* C5: a chain in which a stage rejected has sent exactly one fatal-error
\* message and has run nothing after the rejection but the report; a chain in
\* which every stage succeeded has sent none; the fatal-error channel carries
\* exactly the messages of the rejected chains.
C5_OneReportPerRejection ==
  /\ \A c \in Chains :
       LET t == chains[c].trace
       IN /\ Cardinality(Failures(t)) <= 1
          /\ Len(chains[c].fatal) = Cardinality(Failures(t))
          /\ Count(t, "reportFatalError") = Cardinality(Failures(t))
          /\ (chains[c].pc = "failed") = (Failures(t) # {})
          /\ \A i \in Failures(t) :
               /\ Len(t) = i + 1
               /\ t[i + 1] = "reportFatalError"
          /\ chains[c].pc = "ready" => chains[c].fatal = <<>>
  /\ Len(FatalSent) = Cardinality({c \in Chains : chains[c].pc = "failed"})
  /\ \A i \in 1..Len(FatalSent) :
       \E c \in Chains : chains[c].fatal = FatalSent[i].args

C5_Witness ==
  /\ Len(chains) = 2
  /\ chains[1].pc = "ready"
  /\ Has(chains[2].trace, "themeFailed")
  /\ Len(FatalSent) = 1

--------------------------------------------------------------------------
(* C6 *)

\* C6 as stated: in every state in which a fatal-error message has been
\* sent, also for a theme load that failed, no shell element is attached.
C6_NoShellAfterFatal == FatalSent # <<>> => body = <<>>

\* C6 as amended: a chain that reported a failure of the components import,
\* of the application import or of the shell setup has attached no shell, and
\* the document has no shell if it is the only chain; a chain that created
\* the shell and reported a failure of the theme load has its shell attached.
C6_NoShellAfterFatalBeforeTheme ==
  \A c \in Chains :
    chains[c].pc = "failed" =>
      IF Has(chains[c].trace, "themeFailed")
        THEN chains[c].enteredCreated \/ ShellsOf(c) # {}
        ELSE /\ ShellsOf(c) = {}
             /\ Len(chains) = 1 => body = <<>>

C6_Witness ==
  /\ Len(chains) = 2
  /\ Has(chains[1].trace, "setupFailed")
  /\ ShellsOf(1) = {}
  /\ Has(chains[2].trace, "themeFailed")
  /\ ShellsOf(2) # {}

--------------------------------------------------------------------------
(* C7 *)

\* C7 as stated: a chain whose import of src/arc-electron.html failed has
\* sent "unable to load application" on the fatal-error channel and has
\* attached no shell.
C7_AppImportMessageAsStated ==
  \A c \in Chains :
    Has(chains[c].trace, "appFailed") =>
      /\ chains[c].fatal = <<"unable to load application">>
      /\ ShellsOf(c) = {}

\* C7 as amended: the message sent is "Unable to load ARC app"; the chain
\* aborts without requesting the theme and without attaching a shell.
C7_AppImportRejected ==
  \A c \in Chains :
    Has(chains[c].trace, "appFailed") =>
      /\ chains[c].pc = "failed"
      /\ chains[c].fatal = <<"Unable to load ARC app">>
      /\ \E i \in 1..Len(outbox) : outbox[i] = FatalMessage("Unable to load ARC app")
      /\ ~Has(chains[c].trace, "createElement")
      /\ ~Has(chains[c].trace, "loadTheme")
      /\ ShellsOf(c) = {}
      /\ Len(chains) = 1 => (body = <<>> /\ ~created)

C7_Witness ==
  /\ Len(chains) = 1
  /\ Has(chains[1].trace, "appFailed")
  /\ Len(FatalSent) = 1
  /\ body = <<>>

--------------------------------------------------------------------------
(* C8 *)

\* The task that ran last is commandHandler for a case of its switch, with a
\* shell in the document.
CommandToShell ==
  /\ lastEvent.handler = "commandHandler"
  /\ lastEvent.action \in CommandNames
  /\ body # <<>>

\* C8 as stated: a command of the enumeration dispatched to an existing shell
\* invokes exactly the corresponding operation, once, with all arguments of
\* the command forwarded in their positions, and no other operation.
C8_AllArgumentsForwarded ==
  CommandToShell =>
    LET all == [i \in 1..Len(lastEvent.args) |-> <<lastEvent.args[i]>>]
    IN /\ thrown = "none"
       /\ \A p \in CommandTable :
            p[1] = lastEvent.action => calls = <<ShellCall(p[2], all)>>
       /\ \A p \in RemoteTable :
            p[1] = lastEvent.action =>
              /\ calls[1] = BridgeCall(p[2], all)
              /\ Cardinality({i \in 1..Len(calls) : calls[i].target = "this"}) = 1

\* C8 as amended: the fifteen panel commands invoke their operation of the
\* shell once with no arguments, whatever arguments the command carries;
\* get-tabs-count passes args[0], activate-tab and get-request-data pass
\* args[0] and args[1] to their method of the bridge, once; no other
\* operation of the table is invoked.
C8_OneOperationPerCommand ==
  CommandToShell =>
    /\ thrown = "none"
    /\ \A p \in CommandTable :
         p[1] = lastEvent.action =>
           /\ calls = <<ShellCall(p[2], <<>>)>>
           /\ replies = <<>>
    /\ \A p \in RemoteTable :
         p[1] = lastEvent.action =>
           /\ Len(calls) = 2
           /\ calls[1] = BridgeCall(p[2], [i \in 1..p[3] |-> Arg(lastEvent.args, i)])
           /\ calls[2].target = "app"
           /\ calls[2].op \notin {q[2] : q \in CommandTable}
           /\ Len(replies) = 1

C8_Witness ==
  /\ CommandToShell
  /\ lastEvent.action = "open-saved"
  /\ lastEvent.args = <<42, 7>>
  /\ calls = <<ShellCall("openSaved", <<>>)>>

--------------------------------------------------------------------------
(* C9 *)

\* C9: a command whose name is no case of the switch invokes nothing, sends
\* no reply, changes neither the bridge nor the document and throws nothing,
\* in whatever state it is delivered.
C9_UnknownCommandIgnored ==
  [][(/\ lastEvent'.handler = "commandHandler"
      /\ lastEvent'.action \notin CommandNames)
       => /\ UNCHANGED bridgeVars
          /\ calls' = <<>>
          /\ replies' = <<>>
          /\ thrown' = "none"]_vars

C9_Witness ==
  /\ lastEvent.handler = "commandHandler"
  /\ lastEvent.action \notin CommandNames
  /\ \E c \in Chains : chains[c].pc = "failed"
  /\ body = <<>>
  /\ thrown = "none"

--------------------------------------------------------------------------
(* C10 *)

\* C10: a request action whose name is no case of the switch throws the
\* error 'Unrecognized action <name>' and invokes no operation; a name that
\* is a case never produces that error.
C10_UnknownRequestActionThrows ==
  lastEvent.handler = "execRequestAction" =>
    IF lastEvent.action \in {"save", "save-as", "new-tab", "send-current",
                             "update-request"}
      THEN thrown \in {"none", "TypeError"}
      ELSE /\ thrown = "Error: Unrecognized action " \o lastEvent.action
           /\ calls = <<>>
           /\ replies = <<>>

C10_Witness ==
  /\ lastEvent.handler = "execRequestAction"
  /\ lastEvent.action = "unknown-action"
  /\ body # <<>>
  /\ thrown = "Error: Unrecognized action unknown-action"
  /\ calls = <<>>

--------------------------------------------------------------------------
(* C11 *)

\* The task that ran last is commandHandler for this case of its switch.
LastCommand(action) ==
  /\ lastEvent.handler = "commandHandler"
  /\ lastEvent.action = action

\* C11: every get-tabs-count command is answered exactly once, before its
\* handler returns, on current-tabs-count with its call id, error flag false
\* and the number of open tabs of the shell; no other task sends a reply on
\* that channel.
C11_TabsCountAlwaysAnswered ==
  /\ LastCommand("get-tabs-count") =>
       /\ thrown = "none"
       /\ Len(replies) = 1
       /\ replies[1].channel = "current-tabs-count"
       /\ replies[1].callId = Arg(lastEvent.args, 1)
       /\ replies[1].error = FALSE
       /\ body # <<>> =>
            replies[1].payload = <<Len(body[App[1]].activeRequests)>>
  /\ \A i \in 1..Len(replies) :
       replies[i].channel = "current-tabs-count" => LastCommand("get-tabs-count")

--------------------------------------------------------------------------
(* C12 *)

\* C12: every activate-tab command sets the selected tab of the shell to its
\* tab id, whether or not a tab has that id, and then replies exactly once on
\* tab-activated with its call id, error flag false and no payload.
C12_ActivateTabAlwaysAcknowledged ==
  LastCommand("activate-tab") =>
    /\ thrown = "none"
    /\ body # <<>>
    /\ body[App[1]].selected = Arg(lastEvent.args, 2)
    /\ Len(replies) = 1
    /\ replies[1].channel = "tab-activated"
    /\ replies[1].callId = Arg(lastEvent.args, 1)
    /\ replies[1].error = FALSE
    /\ replies[1].payload = <<>>

--------------------------------------------------------------------------
(* C13 *)

\* The values of a request that ipc cannot serialize.
Fragments == {"FormData", "File", "Blob"}

\* A request without its properties that cannot be serialized.
WithoutFragments(r) == [f \in {g \in DOMAIN r : r[g] \notin Fragments} |-> r[f]]

\* The task that ran last is get-request-data for a tab of the shell whose
\* request has a property that cannot be serialized.
RequestDataWithFragments ==
  /\ LastCommand("get-request-data")
  /\ body # <<>>
  /\ Len(lastEvent.args) >= 2
  /\ lastEvent.args[2] + 1 \in 1..Len(body[App[1]].activeRequests)
  /\ \E f \in DOMAIN body[App[1]].activeRequests[lastEvent.args[2] + 1] :
       body[App[1]].activeRequests[lastEvent.args[2] + 1][f] \in Fragments

--------------------------------------------------------------------------
(* C14 *)

\* The task that ran last is _stateInfoHandler.
LastStateInfo == lastEvent.handler = "_stateInfoHandler"

\* The payload of the last window-state-info has no workspace index.
NoIndexDelivered ==
  /\ LastStateInfo
  /\ \/ lastEvent.payload = <<>>
     \/ "workspaceIndex" \notin DOMAIN lastEvent.payload[1]

\* C14: after a window-state-info without a workspace index, also one
\* without a payload, the stored config, window.ArcConfig.initConfig and
\* this.workspaceIndex hold index 0 and the workspace manager was constructed
\* with index 0; a payload with a non-zero index is stored and used as it is.
C14_WorkspaceIndexDefault ==
  /\ NoIndexDelivered =>
       /\ initConfig[1].workspaceIndex = 0
       /\ windowArcConfig[1].initConfig.workspaceIndex = 0
       /\ workspaceIndex = <<0>>
       /\ workspaceManager[1].index = 0
       /\ workspaceManager[1].observed
       /\ \A f \in DOMAIN initConfig[1] \ {"workspaceIndex"} :
            initConfig[1][f] = lastEvent.payload[1][f]
  /\ (LastStateInfo /\ ~NoIndexDelivered /\ lastEvent.payload[1].workspaceIndex # 0) =>
       /\ initConfig = lastEvent.payload
       /\ windowArcConfig[1].initConfig = lastEvent.payload[1]
       /\ workspaceIndex = <<lastEvent.payload[1].workspaceIndex>>
       /\ workspaceManager[1].index = lastEvent.payload[1].workspaceIndex

C14_Witness ==
  /\ NoIndexDelivered
  /\ lastEvent.payload # <<>>
  /\ initConfig[1].workspaceIndex = 0
  /\ workspaceManager[1].opts = [filePath |-> "/tmp/w.json"]

--------------------------------------------------------------------------
(* C15 *)

\* The inbound channels with the handler each is to have.
InboundHandlers ==
  { <<"checking-for-update", "updateEventHandler">>,
    <<"update-available", "updateEventHandler">>,
    <<"update-not-available", "updateEventHandler">>,
    <<"autoupdate-error", "updateEventHandler">>,
    <<"download-progress", "updateEventHandler">>,
    <<"update-downloaded", "updateEventHandler">>,
    <<"command", "commandHandler">>,
    <<"request-action", "execRequestAction">>,
    <<"theme-editor-preview", "_themePreviewHandler">>,
    <<"window-state-info", "_stateInfoHandler">> }

StateRequests == SelectSeq(outbox, LAMBDA m : m.channel = "window-state-request")

\* C15: before listen nothing is registered or sent; from listen on every
\* inbound channel has exactly one registration, of its handler, whatever
\* task runs later; window-state-request is sent once, after the
\* registrations, as the first message of the process and before any chain
\* or shell exists.
C15_RegisteredOnceThenRequested ==
  /\ scriptPc = "constructed" => (subscriptions = <<>> /\ outbox = <<>>)
  /\ scriptPc # "constructed" =>
       /\ Len(subscriptions) = Cardinality(InboundHandlers)
       /\ \A p \in InboundHandlers :
            Cardinality({i \in 1..Len(subscriptions) :
                           subscriptions[i].channel = p[1]}) = 1
       /\ \A i \in 1..Len(subscriptions) :
            <<subscriptions[i].channel, subscriptions[i].handler>> \in InboundHandlers
  /\ Len(StateRequests) = (IF scriptPc = "done" THEN 1 ELSE 0)
  /\ scriptPc = "done" => outbox[1].channel = "window-state-request"
  /\ (chains # <<>> \/ body # <<>>) => Len(StateRequests) = 1

C15_Witness ==
  /\ scriptPc = "done"
  /\ Len(StateRequests) = 1
  /\ body # <<>>
  /\ lastEvent.handler = "execRequestAction"
  /\ Len(subscriptions) = 10

--------------------------------------------------------------------------
(* C16 *)

\* C16: every theme-editor-preview message is accepted without an error and
\* its style map is passed to previewThemes of the theme component the
\* constructor created.
C16_ThemePreviewForwarded ==
  lastEvent.handler = "_themePreviewHandler" =>
    /\ thrown = "none"
    /\ Len(calls) = 1
    /\ calls[1].op = "previewThemes"
    /\ calls[1].args = <<lastEvent.stylesMap>>

--------------------------------------------------------------------------
(* C17 *)

\* C17: every message on an update channel sets updateState of the shell to
\* the message; hasAppUpdate of the shell is set when the message came on
\* update-downloaded, is left as it was by the other five channels and is
\* never cleared.
C17_UpdateStateRepublished ==
  [][lastEvent'.handler = "updateEventHandler" =>
       /\ thrown' = "none"
       /\ body # <<>>
       /\ body'[App[1]].updateState = <<lastEvent'.message>>
       /\ body'[App[1]].hasAppUpdate =
            IF lastEvent'.channel = "update-downloaded"
              THEN TRUE
              ELSE body[App[1]].hasAppUpdate]_vars

--------------------------------------------------------------------------
(* C19 *)

\* The task that ran last handled a recognized command, a recognized request
\* action or an update message.
RecognizedEvent ==
  \/ lastEvent.handler = "commandHandler" /\ lastEvent.action \in CommandNames
  \/ lastEvent.handler = "execRequestAction" /\ lastEvent.action \in RequestActionNames
  \/ lastEvent.handler = "updateEventHandler"

\* C19: a recognized command, request action or update message handled while
\* no shell element is attached throws nothing, and a remote-call command
\* handled then still gets its one reply.
C19_NoShellNoError ==
  (RecognizedEvent /\ body = <<>>) =>
    /\ thrown = "none"
    /\ (lastEvent.handler = "commandHandler" /\ lastEvent.action \in RemoteCommands)
         => Len(replies) = 1

--------------------------------------------------------------------------
(* C18 *)

\* C18: a window-state-info handled while this.created is set replaces the
\* stored config, constructs and observes a workspace manager from the new
\* index and path and requests the theme file of the new config; its chain
\* imports nothing and does not call initApplication.
C18_RedeliveryReappliesWorkspaceAndTheme ==
  /\ \A c \in Chains :
       chains[c].enteredCreated =>
         /\ chains[c].importHref = <<>>
         /\ chains[c].themeFile = <<Get(chains[c].config, "themeFile")>>
         /\ chains[c].trace[1] = "workspaceManager"
         /\ chains[c].trace[2] = "loadTheme"
         /\ \A ev \in {"importComponents", "importApp", "createElement",
                       "initApplication", "appendChild"} :
              ~Has(chains[c].trace, ev)
  /\ (LastStateInfo /\ created) =>
       LET cfg == chains[Len(chains)].config
       IN /\ chains[Len(chains)].enteredCreated
          /\ initConfig = <<cfg>>
          /\ windowArcConfig = <<[initConfig |-> cfg]>>
          /\ \A f \in DOMAIN cfg \ {"workspaceIndex"} :
               cfg[f] = lastEvent.payload[1][f]
          /\ workspaceManager[1].index = cfg.workspaceIndex
          /\ workspaceManager[1].observed
          /\ workspaceManager[1].opts =
               IF "workspacePath" \in DOMAIN cfg
                 THEN [filePath |-> cfg.workspacePath]
                 ELSE EmptyObj

C18_Witness ==
  /\ LastStateInfo
  /\ created
  /\ Len(chains) = 2
  /\ chains[1].config # chains[2].config
  /\ chains[2].themeFile = <<"light.css">>
  /\ workspaceManager[1].index = 2
  /\ Len(body) = 1

--------------------------------------------------------------------------
(* C20 *)

\* C20: the components directory a chain injects into its shell and the
\* theme file it requests are those of the config whose delivery started the
\* chain, also when another config was delivered while the chain waited for
\* an import.
C20_ChainUsesItsOwnConfig ==
  /\ \A i \in 1..Len(body) :
       body[i].componentsDir = Get(chains[body[i].creator].config, "appComponents")
  /\ \A c \in Chains :
       chains[c].themeFile # <<>> =>
         chains[c].themeFile = <<Get(chains[c].config, "themeFile")>>

====
